---------------------------- MODULE Spec2Model ----------------------------
(***************************************************************************)
(* Model of src/audio.py: a Streamlit script that stages an uploaded media *)
(* file, loads a cached Whisper model, transcribes on request and renders  *)
(* the result as text and as an SRT document.                              *)
(*                                                                         *)
(* Streamlit re-executes the whole script top to bottom on every user      *)
(* interaction.  One such execution is a "run"; the position of the run in *)
(* the script is pc.  What survives a run is the process state: the        *)
(* environment PATH, the st.cache_resource registry, and the file system.  *)
(***************************************************************************)
EXTENDS Integers, Sequences, FiniteSets, TLC

VARIABLES
    \* ---- process state, survives script runs ----
    PATH,            \* os.environ["PATH"], a sequence of directories
    ffmpegIn,        \* the directories that hold an ffmpeg executable
    cache,           \* st.cache_resource registry: variant -> handle or NoHandle
    loadCalls,       \* variant -> number of whisper.load_model invocations
    storage,         \* temp file id -> content, or Absent
    runs,            \* number of script runs started so far
    clickable,       \* the button was rendered on the page of the previous run
    \* ---- one script run ----
    pc,              \* position of the run in the script
    ended,           \* how the run ended: "no", "end", "stop", "raise"
    model_size,      \* sidebar selectbox
    opts,            \* sidebar checkboxes
    ffmpeg_path,     \* line 74
    uploaded,        \* line 84: a file is present in the uploader
    tmp_file,        \* line 99: id of the file NamedTemporaryFile created
    temp_path,       \* line 104
    model,           \* line 112
    transcribe_btn,  \* line 118
    result,          \* line 123
    srt_content,     \* line 162
    page,            \* the elements the run has rendered so far
    trace,           \* the request states the run has passed through
    transcribeCalls, \* number of model.transcribe invocations in this run
    rm_raised,       \* os.remove raised in this run (and was swallowed)
    \* ---- inputs of the pure helpers, when checked on their own ----
    seconds,         \* argument of format_timestamp, in ticks
    tieUp,           \* direction in which float error resolves an exact .5 ms
    ts_out,          \* value returned by format_timestamp
    segments,        \* argument of segments_to_srt
    srt_out,         \* value returned by segments_to_srt
    \* ---- sessions calling load_whisper_model side by side ----
    s_pc,            \* session -> its position inside the cached call
    s_arg,           \* session -> the model_size it passed
    s_ret,           \* session -> what its last call returned
    s_calls,         \* session -> number of calls it has started
    lock,            \* variant -> the session computing its value
    failed           \* variant -> number of loads that raised

procVars == <<PATH, ffmpegIn, cache, loadCalls, storage, runs, clickable>>
runVars  == <<pc, ended, model_size, opts, ffmpeg_path, uploaded, tmp_file,
              temp_path, model, transcribe_btn, result, srt_content, page,
              trace, transcribeCalls, rm_raised>>
pureVars == <<seconds, tieUp, ts_out, segments, srt_out>>
concVars == <<s_pc, s_arg, s_ret, s_calls, lock, failed>>
vars     == <<procVars, runVars, pureVars, concVars>>

-----------------------------------------------------------------------------
(* Bounds *)

MaxRuns == 3          \* script runs in one process
TicksPerMs == 4       \* resolution of a second offset: ticks per millisecond
MaxHours == 1         \* whole hours of a second offset
MaxSegs == 2          \* segments in a list given to segments_to_srt
MaxCalls == 2         \* calls of load_whisper_model by one session

(* Program constants *)

MsPerSec == 1000
SecPerMin == 60
SecPerHour == 3600

TicksPerSec == MsPerSec * TicksPerMs


-----------------------------------------------------------------------------
(* Text.  A Python str is a sequence of one-character strings, so that the *)
(* width of a formatted field and the joining of lines are computed.       *)

DigitChars == <<"0", "1", "2", "3", "4", "5", "6", "7", "8", "9">>
NL == "\n"
Whitespace == {" ", NL}

Abs(n) == IF n < 0 THEN -n ELSE n

RECURSIVE NatStr(_)
NatStr(n) ==
    IF n < 10 THEN <<DigitChars[n + 1]>>
    ELSE NatStr(n \div 10) \o <<DigitChars[(n % 10) + 1]>>

\* str(n)
Str(n) == IF n < 0 THEN <<"-">> \o NatStr(-n) ELSE NatStr(n)

RECURSIVE Zeros(_)
Zeros(k) == IF k <= 0 THEN <<>> ELSE <<"0">> \o Zeros(k - 1)

\* f"{n:0wd}": zero padding up to width w, the sign counted in the width;
\* a value wider than w is printed in full.
Pad(n, w) ==
    LET d == NatStr(Abs(n))
    IN  IF n < 0 THEN <<"-">> \o Zeros(w - 1 - Len(d)) \o d
        ELSE Zeros(w - Len(d)) \o d

RECURSIVE LStrip(_)
LStrip(s) ==
    IF s # <<>> /\ Head(s) \in Whitespace THEN LStrip(Tail(s)) ELSE s

RECURSIVE RStrip(_)
RStrip(s) ==
    IF s # <<>> /\ s[Len(s)] \in Whitespace
    THEN RStrip(SubSeq(s, 1, Len(s) - 1)) ELSE s

\* str.strip()
Strip(s) == RStrip(LStrip(s))

\* sep.join(lines)
RECURSIVE Join(_, _)
Join(lines, sep) ==
    IF lines = <<>> THEN <<>>
    ELSE IF Len(lines) = 1 THEN lines[1]
    ELSE lines[1] \o <<sep>> \o Join(Tail(lines), sep)

-----------------------------------------------------------------------------
(* format_timestamp, lines 26-33.  A second offset is an integer number of *)
(* ticks, TicksPerSec ticks to the second.                                 *)

\* int(seconds): truncation toward zero
IntSeconds(t) ==
    IF t >= 0 THEN t \div TicksPerSec ELSE -((-t) \div TicksPerSec)

\* round(x * 1000) of the fractional part, ft ticks.  An exact half
\* millisecond is not exact in binary floating point: the subtraction
\* seconds - int(seconds) leaves it a little under or a little over, so
\* round() goes either way (59.9995 gives 999, 1.9995 gives 1000); up tells
\* which.
RoundMs(ft, up) ==
    LET a == Abs(ft)
        q == a \div TicksPerMs
        r == a % TicksPerMs
        mag == IF 2 * r < TicksPerMs THEN q
               ELSE IF 2 * r > TicksPerMs THEN q + 1
               ELSE IF up THEN q + 1 ELSE q
    IN  IF ft < 0 THEN -mag ELSE mag

FormatTimestamp(t, up) ==
    LET ms == RoundMs(t - IntSeconds(t) * TicksPerSec, up)
        total == IntSeconds(t)
        s == total % SecPerMin
        m == (total \div SecPerMin) % SecPerMin
        h == total \div SecPerHour
    IN  Pad(h, 2) \o <<":">> \o Pad(m, 2) \o <<":">> \o Pad(s, 2)
        \o <<",">> \o Pad(ms, 3)

-----------------------------------------------------------------------------
(* segments_to_srt, lines 35-46 *)

\* seg.get(key, default)
SegGet(seg, key, default) == IF key \in DOMAIN seg THEN seg[key] ELSE default

\* the four lines appended for the segment numbered idx
SrtBlock(idx, seg, up) ==
    LET start == FormatTimestamp(seg["start"], up)
        end   == FormatTimestamp(seg["end"], up)
        text  == Strip(SegGet(seg, "text", <<>>))
    IN  << Str(idx),
           start \o <<" ", "-", "-", ">", " ">> \o end,
           text,
           <<>> >>

\* the list lines after the loop over enumerate(segs, start=1)
RECURSIVE SrtLinesFrom(_, _, _)
SrtLinesFrom(idx, segs, up) ==
    IF segs = <<>> THEN <<>>
    ELSE SrtBlock(idx, Head(segs), up) \o SrtLinesFrom(idx + 1, Tail(segs), up)

\* a plausible slip: enumerate(segments) without start=1
SrtLinesFromZero(segs, up) == SrtLinesFrom(0, segs, up)

SrtLines(segs, up) == SrtLinesFrom(1, segs, up)

SegmentsToSrt(segs, up) == Join(SrtLines(segs, up), NL)

-----------------------------------------------------------------------------
(* The environment of the script *)

NoPath == "None"
NoHandle == 0
NoFile == 0
None == "None"
Absent == "absent"
\* a name not yet bound to a str (a str is a sequence of characters)
Unset == <<None>>
\* result = None, line 126 and line 129
NoResult == [none |-> TRUE]

SysDir == "C:\\Windows\\system32"
FfmpegDir == "C:\\ffmpeg-8.0-full_build\\bin"      \* line 22

\* two of the five options of the selectbox, line 60
ModelSizes == {"base", "small"}

Files == 1..MaxRuns

\* the two browser sessions whose script threads share the process
Sessions == {1, 2}
NoSession == 0

\* shutil.which("ffmpeg"): the first directory of the search path that holds
\* the executable
RECURSIVE Which(_, _)
Which(path, dirs) ==
    IF path = <<>> THEN NoPath
    ELSE IF Head(path) \in dirs THEN Head(path)
    ELSE Which(Tail(path), dirs)

\* is_ffmpeg_available, lines 16-18
IsFfmpegAvailable(path, dirs) == Which(path, dirs) # NoPath

\* a plausible slip: the test of line 23 left out
SetFfmpegPathAlways(path, dirs) == <<FfmpegDir>> \o path

\* set_ffmpeg_path, lines 20-24: the value of PATH after the call
SetFfmpegPath(path, dirs) ==
    IF ~IsFfmpegAvailable(path, dirs) THEN <<FfmpegDir>> \o path ELSE path

\* a plausible slip: the removal names another path than the staged file
OsRemoveOther(st, f, ok) == st

\* os.remove(f) inside try/except Exception: pass.  ok tells whether the
\* operating system lets the file go.
OsRemove(st, f, ok) ==
    IF ok /\ st[f] # Absent THEN [st EXCEPT ![f] = Absent] ELSE st

\* a plausible slip: a registry that also remembers a failed load
CachedOrFailed(c, v) == c[v] # NoHandle \/ loadCalls[v] > 0

\* a plausible slip: the decorator @st.cache_resource left out
CachedNever(c, v) == FALSE

\* st.cache_resource: the registry holds a value for this argument
Cached(c, v) == c[v] # NoHandle

\* st.button returns True only in the run a click on the rendered button
\* started
ButtonValues(wasRendered) == IF wasRendered THEN BOOLEAN ELSE {FALSE}

\* line 119: if transcribe_btn
TriggeredAlways(b) == TRUE

Triggered(b) == b

\* lines 75-81: the warning and the success message are both followed by
\* the uploader, whatever the check found
AfterFfmpegCheckAbort(found) == IF found = NoPath THEN "done" ELSE "uploader"

AfterFfmpegCheck(found) == "uploader"

\* line 116: st.stop() ends the run after a failed model load
AfterLoadFailureFallThrough == "button"

AfterLoadFailure == "done"

\* lines 124-129: both handlers set result = None and fall through to the
\* removal at line 172
AfterTranscribeErrorStop == "done"

AfterTranscribeError == "cleanup"

\* a plausible slip: a handler that swallows the exception
ErrorElementsSilent(exc) == {}

\* lines 124-133: st.error of the handler that catches exc, then the
\* st.warning for result is None
ErrorElements(exc) ==
    {IF exc = "RuntimeError" THEN "runtime_error" ELSE "transcribe_error",
     "failed_warning"}

\* what model.transcribe can return: a dict with "text" and "segments"
SampleSegment == [start |-> 0, end |-> 3 * TicksPerSec + 1, text |-> <<" ", "h", "i">>]
Results == { [text |-> <<>>, segments |-> <<>>],
             [text |-> <<" ", "h", "i">>, segments |-> <<SampleSegment>>] }
Raised == {"RuntimeError", "Exception"}

Options == [show_segments : BOOLEAN, enable_txt_download : BOOLEAN,
            enable_srt_download : BOOLEAN]

-----------------------------------------------------------------------------
(* Initial states *)

InitRun ==
    /\ pc = "idle"
    /\ ended = "no"
    /\ model_size = "base"
    /\ opts = [show_segments |-> TRUE, enable_txt_download |-> TRUE,
               enable_srt_download |-> TRUE]
    /\ ffmpeg_path = NoPath
    /\ uploaded = FALSE
    /\ tmp_file = NoFile
    /\ temp_path = NoFile
    /\ model = NoHandle
    /\ transcribe_btn = FALSE
    /\ result = NoResult
    /\ srt_content = Unset
    /\ page = {}
    /\ trace = <<>>
    /\ transcribeCalls = 0
    /\ rm_raised = FALSE

InitProc ==
    /\ PATH = <<SysDir>>
    /\ ffmpegIn \in SUBSET {SysDir, FfmpegDir}
    /\ cache = [v \in ModelSizes |-> NoHandle]
    /\ loadCalls = [v \in ModelSizes |-> 0]
    /\ storage = [f \in Files |-> Absent]
    /\ runs = 0
    /\ clickable = FALSE

InitPure ==
    /\ seconds = 0
    /\ tieUp = FALSE
    /\ ts_out = Unset
    /\ segments = <<>>
    /\ srt_out = Unset

\* no session is inside load_whisper_model
InitConc ==
    /\ s_pc = [s \in Sessions |-> "idle"]
    /\ s_arg = [s \in Sessions |-> "base"]
    /\ s_ret = [s \in Sessions |-> NoHandle]
    /\ s_calls = [s \in Sessions |-> 0]
    /\ lock = [v \in ModelSizes |-> NoSession]
    /\ failed = [v \in ModelSizes |-> 0]

Init == InitProc /\ InitRun /\ InitPure /\ InitConc

-----------------------------------------------------------------------------
(* The script, top to bottom *)

\* lines 58-70: a rerun starts; the sidebar widgets return the user's choices
StartRun ==
    /\ pc \in {"idle", "done"}
    /\ runs < MaxRuns
    /\ runs' = runs + 1
    /\ clickable' = ("button" \in page)
    /\ \E ms \in ModelSizes : model_size' = ms
    /\ \E o \in Options : opts' = o
    /\ pc' = "ffmpeg"
    /\ ended' = "no"
    /\ ffmpeg_path' = NoPath
    /\ uploaded' = FALSE
    /\ tmp_file' = NoFile
    /\ temp_path' = NoFile
    /\ model' = NoHandle
    /\ transcribe_btn' = FALSE
    /\ result' = NoResult
    /\ srt_content' = Unset
    /\ page' = {}
    /\ trace' = <<>>
    /\ transcribeCalls' = 0
    /\ rm_raised' = FALSE
    /\ UNCHANGED <<PATH, ffmpegIn, cache, loadCalls, storage, pureVars, concVars>>

\* lines 72-81: the decoder check
FfmpegCheck ==
    /\ pc = "ffmpeg"
    /\ PATH' = SetFfmpegPath(PATH, ffmpegIn)
    /\ ffmpeg_path' = Which(PATH', ffmpegIn)
    /\ page' = page \cup {IF ffmpeg_path' = NoPath THEN "ffmpeg_warning"
                          ELSE "ffmpeg_success"}
    /\ trace' = Append(trace, "DecoderChecked")
    /\ pc' = AfterFfmpegCheck(ffmpeg_path')
    /\ UNCHANGED <<ffmpegIn, cache, loadCalls, storage, runs, clickable,
                   ended, model_size, opts, uploaded, tmp_file, temp_path,
                   model, transcribe_btn, result, srt_content,
                   transcribeCalls, rm_raised, pureVars, concVars>>

\* the script ran to its last line: lines 175-183
Footer(pg) == pg \cup {"footer"}

\* lines 83-96: the uploader; without a file the script falls through to the
\* footer
Uploader ==
    /\ pc = "uploader"
    /\ \E u \in BOOLEAN :
        /\ uploaded' = u
        /\ IF u
           THEN /\ page' = page \cup {"uploader", "file_info"}
                /\ trace' = Append(trace, "Received")
                /\ pc' = "stage"
                /\ ended' = ended
           ELSE /\ page' = Footer(page \cup {"uploader", "upload_info"})
                /\ trace' = trace
                /\ pc' = "done"
                /\ ended' = "end"
    /\ UNCHANGED <<procVars, model_size, opts, ffmpeg_path, tmp_file,
                   temp_path, model, transcribe_btn, result, srt_content,
                   transcribeCalls, rm_raised, pureVars, concVars>>

\* lines 98-109: staging.  NamedTemporaryFile(delete=False) creates a file
\* under a fresh name (line 99, outside the try); write/flush/close fill it
\* (lines 100-104); a failure of those is reported and re-raised (105-107).
Stage ==
    /\ pc = "stage"
    /\ \E createOk \in BOOLEAN, writeOk \in BOOLEAN :
        IF ~createOk
        THEN /\ UNCHANGED <<storage, tmp_file, temp_path, page>>
             /\ trace' = Append(trace, "Failed")
             /\ pc' = "done"
             /\ ended' = "raise"
        ELSE IF ~writeOk
        THEN /\ tmp_file' = runs
             /\ storage' = [storage EXCEPT ![runs] = "partial"]
             /\ temp_path' = temp_path
             /\ page' = page \cup {"save_error"}
             /\ trace' = Append(trace, "Failed")
             /\ pc' = "done"
             /\ ended' = "raise"
        ELSE /\ tmp_file' = runs
             /\ storage' = [storage EXCEPT ![runs] = "bytes"]
             /\ temp_path' = runs
             /\ page' = page \cup {"saved_info"}
             /\ trace' = Append(trace, "Staged")
             /\ pc' = "load"
             /\ ended' = ended
    /\ UNCHANGED <<PATH, ffmpegIn, cache, loadCalls, runs, clickable,
                   model_size, opts, ffmpeg_path, uploaded, model,
                   transcribe_btn, result, srt_content, transcribeCalls,
                   rm_raised, pureVars, concVars>>

\* lines 111-116 with load_whisper_model, lines 48-56.  A registry hit
\* returns the stored handle; a miss runs the body, which calls
\* whisper.load_model; its value is stored, its exception is not.  On the
\* exception the script removes the staged file and stops.
LoadModel ==
    /\ pc = "load"
    /\ IF Cached(cache, model_size)
       THEN /\ model' = cache[model_size]
            /\ trace' = Append(trace, "ModelReady")
            /\ pc' = "button"
            /\ UNCHANGED <<cache, loadCalls, storage, page, ended, rm_raised>>
       ELSE /\ loadCalls' = [loadCalls EXCEPT ![model_size] = @ + 1]
            /\ \E loadOk \in BOOLEAN, removeOk \in BOOLEAN :
                IF loadOk
                THEN /\ cache' = [cache EXCEPT ![model_size] = runs]
                     /\ model' = runs
                     /\ trace' = Append(trace, "ModelReady")
                     /\ pc' = "button"
                     /\ UNCHANGED <<storage, page, ended, rm_raised>>
                ELSE /\ page' = page \cup {"load_error"}
                     /\ storage' = OsRemove(storage, temp_path, removeOk)
                     /\ rm_raised' = ~removeOk
                     /\ trace' = trace \o <<"Failed", "Cleaned">>
                     /\ pc' = AfterLoadFailure
                     /\ ended' = "stop"
                     /\ UNCHANGED <<cache, model>>
    /\ UNCHANGED <<PATH, ffmpegIn, runs, clickable, model_size, opts,
                   ffmpeg_path, uploaded, tmp_file, temp_path,
                   transcribe_btn, result, srt_content, transcribeCalls,
                   pureVars, concVars>>

\* lines 118-119: the button is rendered; unless it was clicked the script
\* falls through to the footer
Button ==
    /\ pc = "button"
    /\ \E b \in ButtonValues(clickable) :
        /\ transcribe_btn' = b
        /\ IF Triggered(b)
           THEN /\ page' = page \cup {"button"}
                /\ pc' = "transcribe"
                /\ ended' = ended
           ELSE /\ page' = Footer(page \cup {"button"})
                /\ pc' = "done"
                /\ ended' = "end"
    /\ UNCHANGED <<procVars, model_size, opts, ffmpeg_path, uploaded,
                   tmp_file, temp_path, model, result, srt_content, trace,
                   transcribeCalls, rm_raised, pureVars, concVars>>

\* lines 120-133: model.transcribe returns a result or raises
Transcribe ==
    /\ pc = "transcribe"
    /\ transcribeCalls' = transcribeCalls + 1
    /\ \E exc \in Raised \cup {None}, out \in Results :
        IF exc # None
        THEN /\ result' = NoResult
             /\ page' = page \cup ErrorElements(exc)
             /\ trace' = trace \o <<"Transcribing", "Failed">>
             /\ pc' = AfterTranscribeError
        ELSE /\ result' = out
             /\ page' = page
             /\ trace' = trace \o <<"Transcribing", "Completed">>
             /\ pc' = "render"
    /\ UNCHANGED <<procVars, ended, model_size, opts, ffmpeg_path, uploaded,
                   tmp_file, temp_path, model, transcribe_btn, srt_content,
                   rm_raised, pureVars, concVars>>

\* lines 134-170: the outputs of a successful transcription
Render ==
    /\ pc = "render"
    /\ LET segs == result["segments"]
           withSrt == opts.enable_srt_download /\ segs # <<>>
       IN  /\ srt_content' = IF withSrt THEN SegmentsToSrt(segs, tieUp)
                             ELSE srt_content
           /\ page' = page \cup {"finished", "transcript"}
                \cup (IF opts.show_segments /\ segs # <<>>
                      THEN {"segments"} ELSE {})
                \cup (IF opts.enable_txt_download
                      THEN {"txt_download"} ELSE {})
                \cup (IF withSrt THEN {"srt_download"} ELSE {})
    /\ pc' = "cleanup"
    /\ UNCHANGED <<procVars, ended, model_size, opts, ffmpeg_path, uploaded,
                   tmp_file, temp_path, model, transcribe_btn, result, trace,
                   transcribeCalls, rm_raised, pureVars, concVars>>

\* lines 172-173, inside the if transcribe_btn block, then the footer
Cleanup ==
    /\ pc = "cleanup"
    /\ \E removeOk \in BOOLEAN :
        /\ storage' = OsRemove(storage, temp_path, removeOk)
        /\ rm_raised' = ~removeOk
    /\ trace' = Append(trace, "Cleaned")
    /\ page' = Footer(page)
    /\ pc' = "done"
    /\ ended' = "end"
    /\ UNCHANGED <<PATH, ffmpegIn, cache, loadCalls, runs, clickable,
                   model_size, opts, ffmpeg_path, uploaded, tmp_file,
                   temp_path, model, transcribe_btn, result, srt_content,
                   transcribeCalls, pureVars, concVars>>

Next ==
    \/ StartRun
    \/ FfmpegCheck
    \/ Uploader
    \/ Stage
    \/ LoadModel
    \/ Button
    \/ Transcribe
    \/ Render
    \/ Cleanup

Spec == Init /\ [][Next]_vars

-----------------------------------------------------------------------------
(* format_timestamp on its own: one call on a bounded argument *)

\* second offsets h:m:s plus any fraction of a second, in ticks
TsInputs ==
    { ((h * SecPerMin + m) * SecPerMin + sec) * TicksPerSec + f :
        h \in 0..MaxHours, m \in {0, 59}, sec \in {0, 59},
        f \in 0..(TicksPerSec - 1) }

InitTs ==
    /\ InitRun
    /\ InitProc
    /\ ffmpegIn = {}
    /\ seconds \in TsInputs
    /\ tieUp \in BOOLEAN
    /\ ts_out = Unset
    /\ segments = <<>>
    /\ srt_out = Unset
    /\ InitConc

CallFormatTimestamp ==
    /\ ts_out = Unset
    /\ ts_out' = FormatTimestamp(seconds, tieUp)
    /\ UNCHANGED <<procVars, runVars, seconds, tieUp, segments, srt_out,
                   concVars>>

NextTs == CallFormatTimestamp

SpecTs == InitTs /\ [][NextTs]_vars

(* segments_to_srt on its own: one call on a bounded segment list *)

SegTimes ==
    { <<0, TicksPerSec - 1>>,
      <<TicksPerSec - 1, 61 * TicksPerSec + 500 * TicksPerMs>> }
SegTexts == { <<>>, <<" ", "a", " ">>, <<"a", " ", "b", NL>> }
SegChoices ==
    { [start |-> p[1], end |-> p[2]] : p \in SegTimes }
    \cup { [start |-> p[1], end |-> p[2], text |-> x] :
             p \in SegTimes, x \in SegTexts }

RECURSIVE SegLists(_)
SegLists(n) ==
    IF n = 0 THEN {<<>>}
    ELSE SegLists(n - 1)
         \cup { Append(l, c) : l \in {x \in SegLists(n - 1) : Len(x) = n - 1},
                               c \in SegChoices }

InitSrt ==
    /\ InitRun
    /\ InitProc
    /\ ffmpegIn = {}
    /\ seconds = 0
    /\ tieUp \in BOOLEAN
    /\ ts_out = Unset
    /\ segments \in SegLists(MaxSegs)
    /\ srt_out = Unset
    /\ InitConc

CallSegmentsToSrt ==
    /\ srt_out = Unset
    /\ srt_out' = SegmentsToSrt(segments, tieUp)
    /\ UNCHANGED <<procVars, runVars, seconds, tieUp, ts_out, segments,
                   concVars>>

NextSrt == CallSegmentsToSrt

SpecSrt == InitSrt /\ [][NextSrt]_vars

-----------------------------------------------------------------------------
(* Reading a rendered text back *)

IsDigit(c) == \E i \in 1..10 : DigitChars[i] = c
DigitVal(c) == (CHOOSE i \in 1..10 : DigitChars[i] = c) - 1

RECURSIVE ParseNat(_)
ParseNat(s) ==
    IF s = <<>> THEN 0
    ELSE 10 * ParseNat(SubSeq(s, 1, Len(s) - 1)) + DigitVal(s[Len(s)])

\* HH:MM:SS,mmm with two, two, two and three digits
IsSrtTimestamp(s) ==
    /\ Len(s) = 12
    /\ s[3] = ":" /\ s[6] = ":" /\ s[9] = ","
    /\ \A i \in {1, 2, 4, 5, 7, 8, 10, 11, 12} : IsDigit(s[i])
    /\ ParseNat(SubSeq(s, 4, 5)) < SecPerMin
    /\ ParseNat(SubSeq(s, 7, 8)) < SecPerMin

\* the offset a well-formed timestamp denotes, in milliseconds
SrtTimestampMs(s) ==
    ((ParseNat(SubSeq(s, 1, 2)) * SecPerMin + ParseNat(SubSeq(s, 4, 5)))
        * SecPerMin + ParseNat(SubSeq(s, 7, 8))) * MsPerSec
    + ParseNat(SubSeq(s, 10, 12))

\* str.split("\n")
RECURSIVE SplitLines(_)
SplitLines(s) ==
    IF \A i \in 1..Len(s) : s[i] # NL THEN <<s>>
    ELSE LET i == CHOOSE k \in 1..Len(s) :
                    s[k] = NL /\ \A j \in 1..(k - 1) : s[j] # NL
         IN  <<SubSeq(s, 1, i - 1)>> \o SplitLines(SubSeq(s, i + 1, Len(s)))

-----------------------------------------------------------------------------
(* Claims *)

\* C2: for every non-negative argument format_timestamp returns a
\* well-formed HH:MM:SS,mmm (millisecond field 000..999) that denotes the
\* argument rounded to the nearest millisecond, a fraction that rounds to
\* 1000 ms being carried into the seconds.
C2_TimestampRoundedWithCarry ==
    ts_out # Unset =>
        /\ IsSrtTimestamp(ts_out)
        /\ 2 * Abs(SrtTimestampMs(ts_out) * TicksPerMs - seconds) <= TicksPerMs

\* C3: the document segments_to_srt returns for N segments splits into
\* exactly 4N lines, block i being the index i, the line
\* format_timestamp(start) --> format_timestamp(end) of segment i, its
\* trimmed text and an empty line; for N = 0 the document is empty.
C3_SrtShape ==
    srt_out # Unset =>
        LET n == Len(segments)
            L == SplitLines(srt_out)
        IN  IF n = 0 THEN srt_out = <<>>
            ELSE /\ Len(L) = 4 * n
                 /\ \A i \in 1..n :
                      /\ L[4 * i - 3] = Str(i)
                      /\ L[4 * i - 2] =
                            FormatTimestamp(segments[i]["start"], tieUp)
                            \o <<" ", "-", "-", ">", " ">>
                            \o FormatTimestamp(segments[i]["end"], tieUp)
                      /\ L[4 * i - 1] =
                            Strip(IF "text" \in DOMAIN segments[i]
                                  THEN segments[i]["text"] ELSE <<>>)
                      /\ L[4 * i] = <<>>

\* C3 witness: a list of at least two segments, one with text to trim and
\* one without a text, has been rendered
C3_Witness ==
    /\ srt_out # Unset
    /\ Len(segments) >= 2
    /\ \E i \in 1..Len(segments) : "text" \notin DOMAIN segments[i]
    /\ \E i \in 1..Len(segments) :
         /\ "text" \in DOMAIN segments[i]
         /\ Strip(segments[i]["text"]) # segments[i]["text"]

\* the run has ended: by the last line, by st.stop() or by an exception
RunOver == pc = "done"

\* C1 as claimed: after a run in which transcription was triggered the
\* staged file is absent from storage, whether transcribe returned or
\* raised, and the run ended normally.
C1_StagedFileAbsentAfterTriggeredRun ==
    (RunOver /\ transcribe_btn) =>
        /\ storage[temp_path] = Absent
        /\ ended = "end"

\* C1 amended: after a run in which transcription was triggered, on the
\* success path and on the failure path alike, os.remove has been applied
\* to the staged file: the file is absent unless os.remove itself raised,
\* and that exception is swallowed (the run reaches the footer).
C1_CleanupBestEffort ==
    (RunOver /\ transcribe_btn) =>
        /\ storage[temp_path] = Absent \/ rm_raised
        /\ "Cleaned" = trace[Len(trace)]
        /\ ended = "end"
        /\ "footer" \in page

\* C1 witness: transcribe raised and the staged file is gone at the end
C1_Witness ==
    /\ RunOver
    /\ transcribe_btn
    /\ transcribeCalls = 1
    /\ result = NoResult
    /\ "failed_warning" \in page
    /\ storage[temp_path] = Absent

\* C4 as claimed: a variant the registry holds has been loaded by exactly
\* one invocation of whisper.load_model.
C4_ExactlyOneLoadInvocation ==
    \A v \in ModelSizes : Cached(cache, v) => loadCalls[v] = 1

\* C4 amended: once a load of a variant has succeeded, whisper.load_model
\* is never invoked for it again, the registry keeps that handle for ever,
\* and every later load_whisper_model call returns it; invocations that
\* failed before the successful one are not undone by it.
C4_NoReloadAfterSuccess ==
    [][ /\ \A v \in ModelSizes :
            cache[v] # NoHandle =>
                /\ cache'[v] = cache[v]
                /\ loadCalls'[v] = loadCalls[v]
        /\ (pc = "load" /\ cache[model_size] # NoHandle) =>
                model' = cache[model_size]
      ]_vars

\* C4 witness: a run was handed the handle an earlier run had loaded
C4_Witness ==
    /\ pc = "button"
    /\ model # NoHandle
    /\ model < runs
    /\ model = cache[model_size]

\* C5: no run ends with an exception leaving the script.
C5_NoUncaughtException ==
    RunOver => ended # "raise"

\* C6 as claimed: in a run whose model load failed, transcribe is not
\* called, the button is not rendered, and the staged file is absent when
\* the run stops.
C6_LoadFailureRemovesFile ==
    "load_error" \in page =>
        /\ transcribeCalls = 0
        /\ "button" \notin page
        /\ RunOver /\ ended = "stop"
        /\ storage[temp_path] = Absent

\* C6 amended: in a run whose model load failed, transcribe is not called,
\* the button is not rendered, and os.remove has been applied to the
\* staged file before the run stops: the file is absent unless os.remove
\* itself raised.
C6_LoadFailureStops ==
    "load_error" \in page =>
        /\ transcribeCalls = 0
        /\ "button" \notin page
        /\ RunOver /\ ended = "stop"
        /\ temp_path # NoFile
        /\ storage[temp_path] = Absent \/ rm_raised

\* C6 witness: a load failed and the staged file has been removed
C6_Witness ==
    /\ "load_error" \in page
    /\ ended = "stop"
    /\ temp_path # NoFile
    /\ storage[temp_path] = Absent
    /\ ~rm_raised

\* C7: model.transcribe is called once in a run where the button returned
\* True and not at all in any other run.
C7_TranscribeOnlyOnTrigger ==
    /\ transcribeCalls <= 1
    /\ transcribeCalls = 1 => transcribe_btn
    /\ (transcribe_btn /\ pc \in {"render", "cleanup", "done"}) =>
            transcribeCalls = 1
    /\ (RunOver /\ ~transcribe_btn) => transcribeCalls = 0

\* C7 witness: a run staged the file and loaded the model, the button was
\* not clicked, and the run ended without a call of transcribe
C7_Witness ==
    /\ RunOver
    /\ uploaded
    /\ temp_path # NoFile
    /\ storage[temp_path] = "bytes"
    /\ model # NoHandle
    /\ "button" \in page
    /\ ~transcribe_btn
    /\ transcribeCalls = 0

\* C8: when a run is over the file it staged is no longer in storage, on
\* every path through the run (a removal that was attempted and raised is
\* left aside here: it is the subject of C1 and C6).
C8_NoStagedFileLeft ==
    (RunOver /\ temp_path # NoFile /\ ~rm_raised) =>
        storage[temp_path] = Absent

\* the place of a request state in the order the specification gives
SpecRank(st) ==
    CASE st = "Received" -> 1
      [] st = "Staged" -> 2
      [] st = "DecoderChecked" -> 3
      [] st = "ModelReady" -> 4
      [] st = "Transcribing" -> 5
      [] st \in {"Completed", "Failed"} -> 6
      [] st = "Cleaned" -> 7

\* the place of a request state in the order of the script
ScriptRank(st) ==
    CASE st = "DecoderChecked" -> 1
      [] st = "Received" -> 2
      [] st = "Staged" -> 3
      [] st = "ModelReady" -> 4
      [] st = "Transcribing" -> 5
      [] st \in {"Completed", "Failed"} -> 6
      [] st = "Cleaned" -> 7

C10_DecoderAbsenceDoesNotAbort ==
    /\ (pc \notin {"idle", "ffmpeg"} /\ ffmpeg_path = NoPath) =>
            /\ "ffmpeg_warning" \in page
            /\ "ffmpeg_success" \notin page
    /\ RunOver =>
            /\ "uploader" \in page
            /\ uploaded => (tmp_file # NoFile \/ ended = "raise")
            /\ temp_path # NoFile =>
                    (model # NoHandle \/ "load_error" \in page)
            /\ model # NoHandle => "button" \in page
            /\ transcribe_btn => transcribeCalls = 1

\* C10 witness: no decoder even on the augmented path, and the run
\* transcribed the file
C10_Witness ==
    /\ RunOver
    /\ ffmpeg_path = NoPath
    /\ Head(PATH) = FfmpegDir
    /\ "ffmpeg_warning" \in page
    /\ transcribeCalls = 1
    /\ result # NoResult
    /\ "transcript" \in page

\* C11: in a run whose staging write failed no model is obtained, the
\* button is not rendered, transcribe is not called, and the file of this
\* run is not in storage.
C11_StagingFailureLeavesNoFile ==
    "save_error" \in page =>
        /\ model = NoHandle
        /\ "button" \notin page
        /\ transcribeCalls = 0
        /\ storage[runs] = Absent

\* C12: a failed load is not kept by the registry.  A call for a variant
\* the registry does not hold invokes whisper.load_model afresh, however
\* many loads of that variant have failed before, and touches no other
\* variant; a call for a variant the registry holds is served from it,
\* whatever has failed for the others.
C12_FailureNotCached ==
    [][ /\ (pc = "load" /\ cache[model_size] = NoHandle) =>
            /\ loadCalls'[model_size] = loadCalls[model_size] + 1
            /\ \A v \in ModelSizes \ {model_size} :
                    cache'[v] = cache[v] /\ loadCalls'[v] = loadCalls[v]
            /\ IF cache'[model_size] = NoHandle
               THEN "load_error" \in page' /\ model' = NoHandle
               ELSE model' = cache'[model_size] /\ pc' = "button"
        /\ (pc = "load" /\ cache[model_size] # NoHandle) =>
            /\ model' = cache[model_size]
            /\ pc' = "button"
            /\ UNCHANGED <<cache, loadCalls>>
      ]_vars

\* C12 witness: the load of one variant failed in the first run, another
\* variant was loaded in the second, and the retry of the first variant
\* succeeded in the third
C12_Witness ==
    \E a, b \in ModelSizes :
        /\ a # b
        /\ loadCalls[a] = 2 /\ cache[a] = 3
        /\ loadCalls[b] = 1 /\ cache[b] = 2

\* the elements lines 135-170 render for a result
Outputs == {"finished", "transcript", "segments", "txt_download",
            "srt_download"}
Errors == {"runtime_error", "transcribe_error", "failed_warning"}

\* C15: after model.transcribe raised, the run shows the error of the
\* handler and the failure warning and none of the outputs, and no SRT
\* document is built; after it returned a result, the run shows the
\* transcript and no transcription error.
C15_FailedOrCompleted ==
    (transcribeCalls = 1 /\ pc \in {"cleanup", "done"}) =>
        IF result = NoResult
        THEN /\ trace[Len(trace)] \in {"Failed", "Cleaned"}
             /\ "Failed" \in {trace[i] : i \in 1..Len(trace)}
             /\ "failed_warning" \in page
             /\ "runtime_error" \in page \/ "transcribe_error" \in page
             /\ page \cap Outputs = {}
             /\ srt_content = Unset
        ELSE /\ "Completed" \in {trace[i] : i \in 1..Len(trace)}
             /\ "Failed" \notin {trace[i] : i \in 1..Len(trace)}
             /\ {"finished", "transcript"} \subseteq page
             /\ page \cap Errors = {}

\* C15 witness: transcribe raised RuntimeError although every output was
\* switched on
C15_Witness ==
    /\ RunOver
    /\ transcribeCalls = 1
    /\ result = NoResult
    /\ "runtime_error" \in page
    /\ opts.show_segments /\ opts.enable_txt_download
    /\ opts.enable_srt_download

\* C16: the call of set_ffmpeg_path leaves PATH as it is when ffmpeg is
\* found on it, and otherwise puts the one directory FfmpegDir in front of
\* it, whether or not that directory holds anything; either way the run
\* goes on to the uploader, and no other step of the script changes PATH.
C16_SetFfmpegPathEffect ==
    [][ IF pc = "ffmpeg"
        THEN /\ IF Which(PATH, ffmpegIn) # NoPath
                THEN PATH' = PATH
                ELSE /\ Len(PATH') = Len(PATH) + 1
                     /\ Head(PATH') = FfmpegDir
                     /\ Tail(PATH') = PATH
             /\ pc' = "uploader"
             /\ ended' = "no"
        ELSE PATH' = PATH
      ]_vars

\* C16 witness: the directory was put in front of PATH although it holds
\* no ffmpeg, and the run went on
C16_Witness ==
    /\ pc = "uploader"
    /\ PATH = <<FfmpegDir, SysDir>>
    /\ FfmpegDir \notin ffmpegIn
    /\ ended = "no"

\* C18: the fallback directory occurs at most once in PATH.
C18_FallbackDirAtMostOnce ==
    Cardinality({i \in 1..Len(PATH) : PATH[i] = FfmpegDir}) <= 1

\* C17: from the moment the file is staged until the removal at the end
\* of the run, so before, during and after the call of model.transcribe,
\* the staged file is in storage with the bytes written at staging; the
\* removal never comes before the call.
C17_StagedFileIntactWhileTranscribing ==
    /\ (temp_path # NoFile
        /\ pc \in {"load", "button", "transcribe", "render", "cleanup"}) =>
            storage[temp_path] = "bytes"
    /\ \A i, j \in 1..Len(trace) :
            (trace[i] = "Cleaned" /\ trace[j] = "Transcribing") => j < i

\* C17 witness: transcribe has just returned and the staged file still
\* holds its bytes
C17_Witness ==
    /\ pc = "render"
    /\ transcribeCalls = 1
    /\ result # NoResult
    /\ storage[temp_path] = "bytes"

-----------------------------------------------------------------------------
(* format_timestamp on a negative argument *)

TsNegInputs == { -t : t \in TsInputs \ {0} }

InitTsNeg ==
    /\ InitRun
    /\ InitProc
    /\ ffmpegIn = {}
    /\ seconds \in TsNegInputs
    /\ tieUp \in BOOLEAN
    /\ ts_out = Unset
    /\ segments = <<>>
    /\ srt_out = Unset
    /\ InitConc

SpecTsNeg == InitTsNeg /\ [][NextTs]_vars

\* what a call that raised would leave in place of a returned str
Rejected == <<"ValueError">>

\* C14: a call of format_timestamp on a negative argument ends in an
\* error, not in a returned string.
C14_NegativeRejected ==
    (seconds < 0 /\ ts_out # Unset) => ts_out = Rejected

-----------------------------------------------------------------------------
(* load_whisper_model called from two sessions at once, lines 48-56 and    *)
(* line 112.  Streamlit runs each session's script in a thread of its own; *)
(* the function wrapped by st.cache_resource reads the registry, and on a  *)
(* miss takes the lock of that value, reads again, and only then runs the  *)
(* body; the value is stored before the lock is released, an exception     *)
(* stores nothing.                                                         *)

RECURSIVE SumOver(_, _)
SumOver(f, S) ==
    IF S = {} THEN 0
    ELSE LET x == CHOOSE y \in S : TRUE IN f[x] + SumOver(f, S \ {x})

\* a plausible slip: a registry looked up and filled without a lock
LockFreeAlways(l, v) == TRUE

\* the lock of value v can be taken
LockFree(l, v) == l[v] = NoSession

\* line 112: model = load_whisper_model(model_size)
CallLoad(s) ==
    /\ s_pc[s] \in {"idle", "returned", "raised"}
    /\ s_calls[s] < MaxCalls
    /\ \E v \in ModelSizes : s_arg' = [s_arg EXCEPT ![s] = v]
    /\ s_calls' = [s_calls EXCEPT ![s] = @ + 1]
    /\ s_ret' = [s_ret EXCEPT ![s] = NoHandle]
    /\ s_pc' = [s_pc EXCEPT ![s] = "read"]
    /\ UNCHANGED <<procVars, runVars, pureVars, lock, failed>>

\* the first look into the registry, without the lock
ReadCache(s) ==
    /\ s_pc[s] = "read"
    /\ IF Cached(cache, s_arg[s])
       THEN /\ s_ret' = [s_ret EXCEPT ![s] = cache[s_arg[s]]]
            /\ s_pc' = [s_pc EXCEPT ![s] = "returned"]
       ELSE /\ s_ret' = s_ret
            /\ s_pc' = [s_pc EXCEPT ![s] = "wait"]
    /\ UNCHANGED <<procVars, runVars, pureVars, s_arg, s_calls, lock, failed>>

\* the miss: wait for the lock of the value
AcquireLock(s) ==
    /\ s_pc[s] = "wait"
    /\ LockFree(lock, s_arg[s])
    /\ lock' = [lock EXCEPT ![s_arg[s]] = s]
    /\ s_pc' = [s_pc EXCEPT ![s] = "locked"]
    /\ UNCHANGED <<procVars, runVars, pureVars, s_arg, s_ret, s_calls, failed>>

\* the second look, under the lock; on a miss the body starts at line 52
ReadAgain(s) ==
    /\ s_pc[s] = "locked"
    /\ IF Cached(cache, s_arg[s])
       THEN /\ s_ret' = [s_ret EXCEPT ![s] = cache[s_arg[s]]]
            /\ s_pc' = [s_pc EXCEPT ![s] = "returned"]
            /\ lock' = [lock EXCEPT ![s_arg[s]] = NoSession]
            /\ loadCalls' = loadCalls
       ELSE /\ loadCalls' = [loadCalls EXCEPT ![s_arg[s]] = @ + 1]
            /\ s_pc' = [s_pc EXCEPT ![s] = "loading"]
            /\ UNCHANGED <<s_ret, lock>>
    /\ UNCHANGED <<PATH, ffmpegIn, cache, storage, runs, clickable, runVars,
                   pureVars, s_arg, s_calls, failed>>

\* whisper.load_model returns (lines 52-53) or raises (lines 54-56)
FinishLoad(s) ==
    /\ s_pc[s] = "loading"
    /\ \E loadOk \in BOOLEAN :
        IF loadOk
        THEN LET h == SumOver(loadCalls, ModelSizes)
             IN  /\ cache' = [cache EXCEPT ![s_arg[s]] = h]
                 /\ s_ret' = [s_ret EXCEPT ![s] = h]
                 /\ s_pc' = [s_pc EXCEPT ![s] = "returned"]
                 /\ failed' = failed
        ELSE /\ failed' = [failed EXCEPT ![s_arg[s]] = @ + 1]
             /\ s_pc' = [s_pc EXCEPT ![s] = "raised"]
             /\ UNCHANGED <<cache, s_ret>>
    /\ lock' = [lock EXCEPT ![s_arg[s]] = NoSession]
    /\ UNCHANGED <<PATH, ffmpegIn, loadCalls, storage, runs, clickable,
                   runVars, pureVars, s_arg, s_calls>>

NextConc ==
    \E s \in Sessions :
        \/ CallLoad(s)
        \/ ReadCache(s)
        \/ AcquireLock(s)
        \/ ReadAgain(s)
        \/ FinishLoad(s)

InitConcSpec ==
    /\ InitProc
    /\ ffmpegIn = {}
    /\ InitRun
    /\ InitPure
    /\ InitConc

SpecConc == InitConcSpec /\ [][NextConc]_vars

\* the sessions that are inside whisper.load_model for variant v
Loading(v) == {s \in Sessions : s_pc[s] = "loading" /\ s_arg[s] = v}

=============================================================================
